---- MODULE Spec2Model ----
(***************************************************************************)
(* Snowflake identifier generator (src/src/snowflake.rs): the core         *)
(* Snowflake (new, next_id, current_timestamp, til_next_millis) and the    *)
(* Mutex wrapper SnowflakeGenerator, called by several threads.            *)
(*                                                                         *)
(* u64 values that can be wide (timestamps, identifiers) are kept as four  *)
(* 16-bit limbs <<l3, l2, l1, l0>>, most significant first, so that the    *)
(* 64-bit subtraction, shifts and ors are computed with their real width.  *)
(* sequence, worker_id and datacenter_id are u64 in the source too; they   *)
(* are kept as naturals (the model's inputs stay below 2^16) and widened   *)
(* by U64 where the source combines them with a timestamp.                 *)
(***************************************************************************)
EXTENDS Integers, Sequences, FiniteSets, TLC

(* ------------------------- 64-bit arithmetic -------------------------- *)

RECURSIVE Pow2(_)
Pow2(n) == IF n = 0 THEN 1 ELSE 2 * Pow2(n - 1)

Limb == Pow2(16)

U64(n) == <<0, 0, n \div Limb, n % Limb>>

Zero64 == U64(0)

\* x < y on u64
Lt64(x, y) == \E i \in 1..4 : x[i] < y[i] /\ \A j \in 1..(i - 1) : x[j] = y[j]

Le64(x, y) == x = y \/ Lt64(x, y)

\* x - y modulo 2^64 (what a build without overflow checks computes)
WrappingSub(x, y) ==
    LET d4 == x[4] - y[4]
        b4 == IF d4 < 0 THEN 1 ELSE 0
        d3 == x[3] - y[3] - b4
        b3 == IF d3 < 0 THEN 1 ELSE 0
        d2 == x[2] - y[2] - b3
        b2 == IF d2 < 0 THEN 1 ELSE 0
        d1 == x[1] - y[1] - b2
    IN  <<(d1 + Limb) % Limb, (d2 + Limb) % Limb, (d3 + Limb) % Limb, (d4 + Limb) % Limb>>

\* x + y modulo 2^64
WrappingAdd(x, y) ==
    LET s4 == x[4] + y[4]
        s3 == x[3] + y[3] + (s4 \div Limb)
        s2 == x[2] + y[2] + (s3 \div Limb)
        s1 == x[1] + y[1] + (s2 \div Limb)
    IN  <<s1 % Limb, s2 % Limb, s3 % Limb, s4 % Limb>>

\* x << n for 0 <= n < 64: the bits shifted past bit 63 are discarded
RECURSIVE Shl(_, _)
Shl(x, n) ==
    IF n >= 16 THEN Shl(<<x[2], x[3], x[4], 0>>, n - 16)
    ELSE LET keep == Pow2(16 - n)
             lo(l) == (l % keep) * Pow2(n)
             hi(l) == l \div keep
         IN  <<lo(x[1]) + hi(x[2]), lo(x[2]) + hi(x[3]), lo(x[3]) + hi(x[4]), lo(x[4])>>

\* x >> n for 0 <= n < 64
RECURSIVE Shr(_, _)
Shr(x, n) ==
    IF n >= 16 THEN Shr(<<0, x[1], x[2], x[3]>>, n - 16)
    ELSE LET drop == Pow2(n)
             hi(l) == l \div drop
             lo(l) == (l % drop) * Pow2(16 - n)
         IN  <<hi(x[1]), lo(x[1]) + hi(x[2]), lo(x[2]) + hi(x[3]), lo(x[3]) + hi(x[4])>>

\* bitwise or / and of two naturals
RECURSIVE BitOr(_, _)
BitOr(a, b) ==
    IF a = 0 THEN b
    ELSE IF b = 0 THEN a
    ELSE 2 * BitOr(a \div 2, b \div 2) + (IF a % 2 = 1 \/ b % 2 = 1 THEN 1 ELSE 0)

RECURSIVE BitAnd(_, _)
BitAnd(a, b) ==
    IF a = 0 \/ b = 0 THEN 0
    ELSE 2 * BitAnd(a \div 2, b \div 2) + (IF a % 2 = 1 /\ b % 2 = 1 THEN 1 ELSE 0)

Or64(x, y) == <<BitOr(x[1], y[1]), BitOr(x[2], y[2]), BitOr(x[3], y[3]), BitOr(x[4], y[4])>>

And64(x, y) == <<BitAnd(x[1], y[1]), BitAnd(x[2], y[2]), BitAnd(x[3], y[3]), BitAnd(x[4], y[4])>>

(* ----------------------------- constants ------------------------------ *)

\* 1609459200000 = 374 * 2^32 + 47934 * 2^16 + 28672
EPOCH == <<0, 374, 47934, 28672>>

WORKER_ID_BITS == 5

DATACENTER_ID_BITS == 5

SEQUENCE_BITS == 12

MAX_WORKER_ID == Pow2(WORKER_ID_BITS) - 1

MAX_DATACENTER_ID == Pow2(DATACENTER_ID_BITS) - 1

MAX_SEQUENCE == Pow2(SEQUENCE_BITS) - 1

TIMESTAMP_SHIFT == SEQUENCE_BITS + WORKER_ID_BITS + DATACENTER_ID_BITS

DATACENTER_ID_SHIFT == SEQUENCE_BITS + WORKER_ID_BITS

WORKER_ID_SHIFT == SEQUENCE_BITS

(* ------------------------------ bounds -------------------------------- *)

\* threads sharing one SnowflakeGenerator
NumThreads == 2

\* next_id calls started in a run where the clock moves freely
MaxCalls == 3

\* next_id calls started beyond the MAX_SEQUENCE + 1 that exhaust a
\* millisecond, in a run where the clock stalls
ExtraCalls == 3

MaxStalledCalls == MAX_SEQUENCE + 1 + ExtraCalls

Threads == 1..NumThreads

\* SystemTime::now() earlier than UNIX_EPOCH: duration_since returns Err
BeforeUnixEpoch == <<>>

\* the readings the system clock can give: before 1970, 1970-01-01,
\* 2000-01-01 (946684800000 = 220 * 2^32 + 27343 * 2^16 + 44032), the custom
\* epoch, one millisecond later, and 2^42 ms after the custom epoch
ClockValues ==
    { BeforeUnixEpoch,
      Zero64,
      <<0, 220, 27343, 44032>>,
      EPOCH,
      WrappingAdd(EPOCH, U64(1)),
      WrappingAdd(EPOCH, Shl(U64(1), 42)) }

\* the first readings of a clock that stalls
StalledClockValues == { Zero64, EPOCH }

\* the (worker_id, datacenter_id) arguments given to new
NewInputs == { <<5, 10>>, <<31, 31>>, <<32, 0>>, <<0, 32>>, <<32, 32>> }

(* ------------------------------- state -------------------------------- *)

VARIABLES
    overflow_checks,  \* the build: TRUE when integer overflow panics (debug profile)
    clock,            \* what SystemTime::now() gives at this instant
    clock_stalls,     \* the clock of this run keeps its reading while no thread
                      \* waits in til_next_millis
    new_result,       \* "pending" before new is called, then "Ok" or "Err"
    snowflake,        \* the Snowflake struct inside the Mutex, <<>> while there is none
    holder,           \* the threads holding the MutexGuard
    poisoned,         \* the Mutex's poison flag
    pc,               \* where each thread is
    result,           \* how the last next_id call to end ended: "Ok" (with the
                      \* identifier last_issued), "Err" or "Panic"
    issued,           \* history: the identifiers returned and their callers, in lock
                      \* order (kept in the runs whose calls MaxCalls bounds)
    last_issued,      \* history: the identifier returned last
    has_issued,       \* history: an identifier has been returned
    calls,            \* history: next_id calls started
    clock_normal,     \* history: the clock has never read before 1970 nor stepped back
    instances         \* two Snowflake structs built with different identifiers, each
                      \* with where its caller is and the identifiers it returned;
                      \* <<>> in the runs of the one shared SnowflakeGenerator

vars == <<overflow_checks, clock, clock_stalls, new_result, snowflake, holder, poisoned, pc,
          result, issued, last_issued, has_issued, calls, clock_normal, instances>>

NoResult == "none"

NoIssue == [timestamp |-> Zero64, sequence |-> 0, id |-> Zero64]

Init ==
    /\ overflow_checks \in BOOLEAN
    /\ clock_stalls \in BOOLEAN
    /\ clock \in IF clock_stalls THEN StalledClockValues ELSE ClockValues
    /\ new_result = "pending"
    /\ snowflake = <<>>
    /\ holder = {}
    /\ poisoned = FALSE
    /\ pc = [t \in Threads |-> "idle"]
    /\ result = NoResult
    /\ issued = <<>>
    /\ last_issued = NoIssue
    /\ has_issued = FALSE
    /\ calls = 0
    /\ clock_normal = (clock # BeforeUnixEpoch)
    /\ instances = <<>>

(* ------------------------------ Snowflake ----------------------------- *)

\* the range check, mutated: every pair of identifiers is accepted
NewFails_Never(worker_id, datacenter_id) == worker_id < 0

\* the range check, mutated: rejects the largest identifiers too
NewFails_OffByOne(worker_id, datacenter_id) ==
    worker_id >= MAX_WORKER_ID \/ datacenter_id >= MAX_DATACENTER_ID

\* Snowflake::new: the range check
NewFails(worker_id, datacenter_id) ==
    worker_id > MAX_WORKER_ID \/ datacenter_id > MAX_DATACENTER_ID

\* Snowflake::new: the struct it builds
NewSnowflake(worker_id, datacenter_id) ==
    [last_timestamp |-> Zero64,
     sequence       |-> 0,
     worker_id      |-> worker_id,
     datacenter_id  |-> datacenter_id]

\* SnowflakeGenerator::new (and Snowflake::new inside it)
New(worker_id, datacenter_id) ==
    /\ new_result = "pending"
    /\ IF NewFails(worker_id, datacenter_id)
       THEN /\ new_result' = "Err"
            /\ snowflake' = snowflake
       ELSE /\ new_result' = "Ok"
            /\ snowflake' = NewSnowflake(worker_id, datacenter_id)
    /\ UNCHANGED <<instances, overflow_checks, clock, clock_stalls, holder, poisoned, pc, result, issued,
                   last_issued, has_issued, calls, clock_normal>>

\* timestamp - EPOCH panics in a build with overflow checks when it underflows
SubOverflows(timestamp) == overflow_checks /\ Lt64(timestamp, EPOCH)

\* the identifier of lines 61-64
MakeId(timestamp, datacenter_id, worker_id, sequence) ==
    Or64(Or64(Or64(Shl(WrappingSub(timestamp, EPOCH), TIMESTAMP_SHIFT),
                   Shl(U64(datacenter_id), DATACENTER_ID_SHIFT)),
              Shl(U64(worker_id), WORKER_ID_SHIFT)),
         U64(sequence))

\* line 51, mutated: the sequence starts again at every call
NextSequence_Resets(sequence) == 0

\* line 51, mutated: the increment without the mask
NextSequence_NoMask(sequence) == sequence + 1

\* the sequence after a call in the millisecond of the last identifier
NextSequence(sequence) == BitAnd(sequence + 1, MAX_SEQUENCE)

\* the history after thread t is given identifier id
Record(t, timestamp, sequence, id) ==
    LET e == [timestamp |-> timestamp, sequence |-> sequence, id |-> id]
    IN  /\ issued' = IF clock_stalls THEN issued
                     ELSE Append(issued, [thread |-> t, issue |-> e])
        /\ last_issued' = e
        /\ has_issued' = TRUE

\* a panic while the MutexGuard is held: the thread dies, the guard is
\* dropped during unwinding and the Mutex is poisoned
Panic(t) ==
    /\ pc' = [pc EXCEPT ![t] = "panicked"]
    /\ result' = "Panic"
    /\ holder' = holder \ {t}
    /\ poisoned' = TRUE
    /\ UNCHANGED <<issued, last_issued, has_issued>>

\* next_id lines 59-66 with the timestamp and the sequence settled
Finish(t, timestamp, sequence) ==
    /\ snowflake' = [snowflake EXCEPT !.last_timestamp = timestamp,
                                      !.sequence = sequence]
    /\ IF SubOverflows(timestamp)
       THEN Panic(t)
       ELSE LET id == MakeId(timestamp, snowflake.datacenter_id,
                             snowflake.worker_id, sequence)
            IN  /\ pc' = [pc EXCEPT ![t] = "idle"]
                /\ result' = "Ok"
                /\ holder' = holder \ {t}
                /\ poisoned' = poisoned
                /\ Record(t, timestamp, sequence, id)

\* line 46, mutated: rejects a reading equal to last_timestamp too
ClockMovedBackwards_OrStalled(timestamp, last_timestamp) ==
    Le64(timestamp, last_timestamp)

\* line 46, mutated: a reading below last_timestamp is accepted
ClockMovedBackwards_Never(timestamp, last_timestamp) ==
    Lt64(timestamp, last_timestamp) /\ Lt64(last_timestamp, timestamp)

\* the check of line 46
ClockMovedBackwards(timestamp, last_timestamp) == Lt64(timestamp, last_timestamp)

\* next_id, mutated: the call that returns the clock error keeps the guard
NextId_KeepsGuardOnError(t) ==
    /\ pc[t] = "next_id"
    /\ IF clock = BeforeUnixEpoch
       THEN /\ Panic(t)
            /\ snowflake' = snowflake
       ELSE IF Lt64(clock, snowflake.last_timestamp)
       THEN /\ pc' = [pc EXCEPT ![t] = "idle"]
            /\ result' = "Err"
            /\ UNCHANGED <<snowflake, holder, poisoned, issued, last_issued, has_issued>>
       ELSE IF clock = snowflake.last_timestamp
       THEN IF BitAnd(snowflake.sequence + 1, MAX_SEQUENCE) = 0
            THEN /\ snowflake' = [snowflake EXCEPT !.sequence = 0]
                 /\ pc' = [pc EXCEPT ![t] = "til_next_millis"]
                 /\ UNCHANGED <<result, holder, poisoned, issued, last_issued,
                                has_issued>>
            ELSE Finish(t, clock, BitAnd(snowflake.sequence + 1, MAX_SEQUENCE))
       ELSE Finish(t, clock, 0)
    /\ UNCHANGED <<instances, overflow_checks, clock, clock_stalls, new_result, calls, clock_normal>>

\* Snowflake::next_id from line 44 to its return or to the call of
\* til_next_millis, run by the thread holding the guard
NextId(t) ==
    /\ pc[t] = "next_id"
    /\ IF clock = BeforeUnixEpoch
       THEN /\ Panic(t)
            /\ snowflake' = snowflake
       ELSE IF ClockMovedBackwards(clock, snowflake.last_timestamp)
       THEN /\ pc' = [pc EXCEPT ![t] = "idle"]
            /\ result' = "Err"
            /\ holder' = holder \ {t}
            /\ UNCHANGED <<snowflake, poisoned, issued, last_issued, has_issued>>
       ELSE IF clock = snowflake.last_timestamp
       THEN IF NextSequence(snowflake.sequence) = 0
            THEN /\ snowflake' = [snowflake EXCEPT !.sequence = 0]
                 /\ pc' = [pc EXCEPT ![t] = "til_next_millis"]
                 /\ UNCHANGED <<result, holder, poisoned, issued, last_issued,
                                has_issued>>
            ELSE Finish(t, clock, NextSequence(snowflake.sequence))
       ELSE Finish(t, clock, 0)
    /\ UNCHANGED <<instances, overflow_checks, clock, clock_stalls, new_result, calls, clock_normal>>

\* line 78, mutated: the loop ends on a reading equal to last_timestamp
TilNextMillis_UntilNotBelow(t) ==
    /\ pc[t] = "til_next_millis"
    /\ IF clock = BeforeUnixEpoch
       THEN /\ Panic(t)
            /\ snowflake' = snowflake
       ELSE IF Lt64(clock, snowflake.last_timestamp)
       THEN UNCHANGED <<snowflake, pc, result, holder, poisoned, issued,
                        last_issued, has_issued>>
       ELSE Finish(t, clock, snowflake.sequence)
    /\ UNCHANGED <<instances, overflow_checks, clock, clock_stalls, new_result, calls, clock_normal>>

\* one clock read of til_next_millis and, when it ends the loop, the rest of
\* next_id
TilNextMillis(t) ==
    /\ pc[t] = "til_next_millis"
    /\ IF clock = BeforeUnixEpoch
       THEN /\ Panic(t)
            /\ snowflake' = snowflake
       ELSE IF Le64(clock, snowflake.last_timestamp)
       THEN UNCHANGED <<snowflake, pc, result, holder, poisoned, issued,
                        last_issued, has_issued>>
       ELSE Finish(t, clock, snowflake.sequence)
    /\ UNCHANGED <<instances, overflow_checks, clock, clock_stalls, new_result, calls, clock_normal>>

(* -------------------------- SnowflakeGenerator ------------------------ *)

\* a thread calls SnowflakeGenerator::next_id
Call(t) ==
    /\ new_result = "Ok"
    /\ pc[t] = "idle"
    /\ pc' = [pc EXCEPT ![t] = "lock"]
    /\ calls < (IF clock_stalls THEN MaxStalledCalls ELSE MaxCalls)
    /\ calls' = calls + 1
    /\ UNCHANGED <<instances, overflow_checks, clock, clock_stalls, new_result, snowflake, holder, poisoned,
                   result, issued, last_issued, has_issued, clock_normal>>

\* lock(), mutated: the guard is handed out while another thread holds it
Lock_WithoutWaiting(t) ==
    /\ pc[t] = "lock"
    /\ IF poisoned
       THEN /\ pc' = [pc EXCEPT ![t] = "panicked"]
            /\ result' = "Panic"
            /\ holder' = holder
       ELSE /\ pc' = [pc EXCEPT ![t] = "next_id"]
            /\ result' = result
            /\ holder' = holder \cup {t}
    /\ UNCHANGED <<instances, overflow_checks, clock, clock_stalls, new_result, snowflake, poisoned,
                   issued, last_issued, has_issued, calls, clock_normal>>

\* self.mutex.lock().unwrap(): waits until the Mutex is free; on a poisoned
\* Mutex lock() gives Err and unwrap panics, dropping the guard
Lock(t) ==
    /\ pc[t] = "lock"
    /\ holder = {}
    /\ IF poisoned
       THEN /\ pc' = [pc EXCEPT ![t] = "panicked"]
            /\ result' = "Panic"
            /\ holder' = holder
       ELSE /\ pc' = [pc EXCEPT ![t] = "next_id"]
            /\ result' = result
            /\ holder' = {t}
    /\ UNCHANGED <<instances, overflow_checks, clock, clock_stalls, new_result, snowflake, poisoned,
                   issued, last_issued, has_issued, calls, clock_normal>>

(* -------------------------------- clock ------------------------------- *)

\* the system clock changes: forwards, backwards or across 1970; a clock
\* that stalls changes only while a thread waits in til_next_millis
Tick ==
    /\ clock_stalls => \E t \in Threads : pc[t] = "til_next_millis"
    /\ clock' \in ClockValues \ {clock}
    /\ clock_normal' = (/\ clock_normal
                        /\ clock' # BeforeUnixEpoch
                        /\ Lt64(clock, clock'))
    /\ UNCHANGED <<instances, overflow_checks, clock_stalls, new_result, snowflake, holder, poisoned, pc,
                   result, issued, last_issued, has_issued, calls>>

(* --------------------------- specifications --------------------------- *)

Next ==
    \/ \E in \in NewInputs : New(in[1], in[2])
    \/ Tick
    \/ \E t \in Threads : Call(t)
    \/ \E t \in Threads : Lock(t)
    \/ \E t \in Threads : NextId(t)
    \/ \E t \in Threads : TilNextMillis(t)

Spec == Init /\ [][Next]_vars

(* ------------------- two Snowflake instances ------------------------- *)

\* identifiers each of the two instances may return
MaxInstanceIds == 2

Instances == 1..2

\* a Snowflake built by new(worker_id, datacenter_id) either before its first
\* call or left at the last sequence of the millisecond EPOCH, whose last
\* identifier it has returned
InstanceStates(worker_id, datacenter_id) ==
    { [snowflake |-> NewSnowflake(worker_id, datacenter_id),
       pc        |-> "idle",
       ids       |-> {}],
      [snowflake |-> [NewSnowflake(worker_id, datacenter_id)
                          EXCEPT !.last_timestamp = EPOCH, !.sequence = MAX_SEQUENCE],
       pc        |-> "idle",
       ids       |-> {MakeId(EPOCH, datacenter_id, worker_id, MAX_SEQUENCE)}] }

\* the pairs of identifiers new accepts
AcceptedInputs == {in \in NewInputs : ~NewFails(in[1], in[2])}

\* two instances with different (worker_id, datacenter_id), the same EPOCH
\* and the same system clock; no shared SnowflakeGenerator in these runs
InitInstances ==
    /\ overflow_checks \in BOOLEAN
    /\ clock_stalls = FALSE
    /\ clock \in ClockValues
    /\ new_result = "pending"
    /\ snowflake = <<>>
    /\ holder = {}
    /\ poisoned = FALSE
    /\ pc = [t \in Threads |-> "idle"]
    /\ result = NoResult
    /\ issued = <<>>
    /\ last_issued = NoIssue
    /\ has_issued = FALSE
    /\ calls = 0
    /\ clock_normal = (clock # BeforeUnixEpoch)
    /\ \E a, b \in AcceptedInputs :
           /\ a # b
           /\ instances \in [Instances -> InstanceStates(a[1], a[2])
                                            \cup InstanceStates(b[1], b[2])]
           /\ instances[1] \in InstanceStates(a[1], a[2])
           /\ instances[2] \in InstanceStates(b[1], b[2])

\* next_id lines 59-66 of instance g: the panic of line 61 ends its caller
InstanceFinish(g, timestamp, sequence) ==
    LET s == instances[g].snowflake
        id == MakeId(timestamp, s.datacenter_id, s.worker_id, sequence)
    IN  instances' =
            [instances EXCEPT
                ![g] = [snowflake |-> [s EXCEPT !.last_timestamp = timestamp,
                                                !.sequence = sequence],
                        pc  |-> IF SubOverflows(timestamp) THEN "panicked" ELSE "idle",
                        ids |-> IF SubOverflows(timestamp)
                                THEN instances[g].ids
                                ELSE instances[g].ids \cup {id}]]

\* Snowflake::next_id of instance g, called directly, from line 44 to its
\* return or to the call of til_next_millis
InstanceNextId(g) ==
    LET s == instances[g].snowflake
    IN  /\ instances[g].pc = "idle"
        /\ Cardinality(instances[g].ids) < MaxInstanceIds
        /\ IF clock = BeforeUnixEpoch
           THEN instances' = [instances EXCEPT ![g].pc = "panicked"]
           ELSE IF ClockMovedBackwards(clock, s.last_timestamp)
           THEN instances' = instances
           ELSE IF clock = s.last_timestamp
           THEN IF NextSequence(s.sequence) = 0
                THEN instances' = [instances EXCEPT ![g].snowflake.sequence = 0,
                                                    ![g].pc = "til_next_millis"]
                ELSE InstanceFinish(g, clock, NextSequence(s.sequence))
           ELSE InstanceFinish(g, clock, 0)
        /\ UNCHANGED <<overflow_checks, clock, clock_stalls, new_result, snowflake, holder,
                       poisoned, pc, result, issued, last_issued, has_issued, calls,
                       clock_normal>>

\* one clock read of til_next_millis of instance g and, when it ends the
\* loop, the rest of next_id
InstanceTilNextMillis(g) ==
    /\ instances[g].pc = "til_next_millis"
    /\ IF clock = BeforeUnixEpoch
       THEN instances' = [instances EXCEPT ![g].pc = "panicked"]
       ELSE IF Le64(clock, instances[g].snowflake.last_timestamp)
       THEN instances' = instances
       ELSE InstanceFinish(g, clock, instances[g].snowflake.sequence)
    /\ UNCHANGED <<overflow_checks, clock, clock_stalls, new_result, snowflake, holder,
                   poisoned, pc, result, issued, last_issued, has_issued, calls,
                   clock_normal>>

NextInstances ==
    \/ Tick
    \/ \E g \in Instances : InstanceNextId(g)
    \/ \E g \in Instances : InstanceTilNextMillis(g)

SpecInstances == InitInstances /\ [][NextInstances]_vars

(* ------------------------------- claims ------------------------------- *)

\* thread t's next_id call returns an identifier in this step
Returns(t) ==
    /\ pc[t] \in {"next_id", "til_next_millis"}
    /\ pc'[t] = "idle"
    /\ result' = "Ok"

\* the (timestamp, sequence) key of a is below that of b
KeyLt(a, b) ==
    \/ Lt64(a.timestamp, b.timestamp)
    \/ a.timestamp = b.timestamp /\ a.sequence < b.sequence

\* C1: no two next_id calls that returned an identifier returned the same
\* identifier, whatever the clock read.
C1_NoDuplicateIds ==
    \A i, j \in 1..Len(issued) :
        i # j => issued[i].issue.id # issued[j].issue.id

\* C2: the identifiers given to different threads through the shared
\* SnowflakeGenerator are pairwise distinct, and so are their
\* (timestamp, sequence) pairs.
C2_ConcurrentCallersDistinct ==
    \A i, j \in 1..Len(issued) :
        issued[i].thread # issued[j].thread =>
            /\ issued[i].issue.id # issued[j].issue.id
            /\ <<issued[i].issue.timestamp, issued[i].issue.sequence>>
                   # <<issued[j].issue.timestamp, issued[j].issue.sequence>>

\* C3: in the order the calls hold the lock, each returned identifier's
\* (timestamp, sequence) key is strictly above the key of the identifier
\* returned before it.
C3_KeysStrictlyIncrease ==
    [][\A t \in Threads :
          (has_issued /\ Returns(t)) => KeyLt(last_issued, last_issued')]_vars

\* C3 witness: an identifier returned after the sequence of a millisecond
\* was exhausted and the call waited for the clock
C3_Witness ==
    /\ clock_stalls
    /\ has_issued
    /\ calls > MAX_SEQUENCE + 1
    /\ last_issued.sequence = 0
    /\ Lt64(EPOCH, last_issued.timestamp)

\* C4: each returned identifier is above the one returned before it when the
\* two are compared as unsigned 64-bit integers.
C4_IdsStrictlyIncrease ==
    \A i \in 1..(Len(issued) - 1) : Lt64(issued[i].issue.id, issued[i + 1].issue.id)

\* thread t's core next_id call, holding a clock reading, takes its step
\* from line 44
Enters(t) ==
    /\ pc[t] = "next_id"
    /\ pc'[t] # "next_id"
    /\ clock # BeforeUnixEpoch

\* C5: a call that reads a clock value below last_timestamp returns the
\* clock error and leaves the generator's four fields as they were; the call
\* after it, reading a value not below last_timestamp, does not fail: it
\* returns the identifier the unchanged state gives (the reading with
\* sequence + 1 in the same millisecond, with sequence 0 in a later one) or,
\* the sequence being exhausted, goes on to wait for the clock.
C5_ClockErrorLeavesState ==
    [][\A t \in Threads :
          /\ (Enters(t) /\ Lt64(clock, snowflake.last_timestamp)) =>
                 /\ result' = "Err"
                 /\ pc'[t] = "idle"
                 /\ snowflake' = snowflake
          /\ (Enters(t) /\ result = "Err" /\ ~Lt64(clock, snowflake.last_timestamp)) =>
                 LET same == clock = snowflake.last_timestamp
                     seq  == IF same THEN snowflake.sequence + 1 ELSE 0
                 IN  IF same /\ snowflake.sequence = 4095
                     THEN pc'[t] = "til_next_millis"
                     ELSE /\ Returns(t)
                          /\ last_issued' =
                                 [timestamp |-> clock,
                                  sequence  |-> seq,
                                  id |-> MakeId(clock, snowflake.datacenter_id,
                                                snowflake.worker_id, seq)]
                          /\ snowflake' = [snowflake EXCEPT !.last_timestamp = clock,
                                                            !.sequence = seq]]_vars

\* C5 witness: every call has ended, one of them with the clock error, and
\* the last one to end returned an identifier
C5_Witness ==
    /\ ~clock_stalls
    /\ \A t \in Threads : pc[t] = "idle"
    /\ result = "Ok"
    /\ calls = Len(issued) + 1

\* C6: a call that read a clock value ends in one of two ways: with the
\* clock error exactly when the value is below last_timestamp, and with an
\* identifier otherwise, at once or after the wait of an exhausted sequence.
C6_TwoOutcomes ==
    [][\A t \in Threads :
          /\ Enters(t) =>
                 IF Lt64(clock, snowflake.last_timestamp)
                 THEN result' = "Err" /\ pc'[t] = "idle"
                 ELSE pc'[t] = "til_next_millis" \/ Returns(t)
          /\ (pc[t] = "til_next_millis" /\ pc'[t] # "til_next_millis"
              /\ clock # BeforeUnixEpoch) => Returns(t)]_vars

\* C7: new(w, d) succeeds exactly when w <= 31 and d <= 31; on success the
\* generator holds last_timestamp 0, sequence 0, w and d, and on failure no
\* generator exists.
C7_NewValidates ==
    [][\A in \in NewInputs :
          New(in[1], in[2]) =>
              IF in[1] <= 31 /\ in[2] <= 31
              THEN /\ new_result' = "Ok"
                   /\ snowflake' = [last_timestamp |-> Zero64,
                                    sequence       |-> 0,
                                    worker_id      |-> in[1],
                                    datacenter_id  |-> in[2]]
              ELSE /\ new_result' = "Err"
                   /\ snowflake' = <<>>]_vars

\* C7 witness: a generator built with the largest identifiers, before any call
C7_Witness ==
    /\ new_result = "Ok"
    /\ calls = 0
    /\ snowflake.worker_id = 31
    /\ snowflake.datacenter_id = 31
    /\ snowflake.sequence = 0
    /\ snowflake.last_timestamp = Zero64

\* the n bits of id from bit lo upwards
Bits(id, lo, n) == And64(Shr(id, lo), U64(Pow2(n) - 1))

\* C8: the identifier returned last decodes to the fields of its call: bits
\* 0-11 the sequence, bits 12-16 the worker_id, bits 17-21 the
\* datacenter_id, and the bits from 22 upwards plus EPOCH the timestamp the
\* call adopted.
C8_RoundTrip ==
    has_issued =>
        /\ Bits(last_issued.id, 0, 12) = U64(last_issued.sequence)
        /\ Bits(last_issued.id, 12, 5) = U64(snowflake.worker_id)
        /\ Bits(last_issued.id, 17, 5) = U64(snowflake.datacenter_id)
        /\ WrappingAdd(Shr(last_issued.id, 22), EPOCH) = last_issued.timestamp

\* the next_id calls that have ended
Completed ==
    calls - Cardinality({t \in Threads : pc[t] \in {"lock", "next_id", "til_next_millis"}})

\* while the clock keeps its first reading T, the first 4096 calls on a
\* fresh generator do not wait and return T with the sequences 0..4095
C9_FirstCalls ==
    (clock_stalls /\ new_result = "Ok" /\ calls <= 4096) =>
        /\ \A t \in Threads : pc[t] \notin {"til_next_millis", "panicked"}
        /\ result \in {"none", "Ok"}
        /\ Completed >= 1 =>
               /\ has_issued
               /\ last_issued.timestamp = clock
               /\ last_issued.sequence = Completed - 1

\* C9: with the clock at one value T for 4097 calls on a fresh generator,
\* the first 4096 return T with the sequences 0..4095, and the 4097th
\* returns only when the clock reads above T, with that reading and
\* sequence 0.
C9_Rollover ==
    [][/\ C9_FirstCalls'
       /\ \A t \in Threads :
              (clock_stalls /\ calls = 4097 /\ pc[t] = "til_next_millis"
               /\ pc'[t] # "til_next_millis" /\ clock # BeforeUnixEpoch) =>
                  /\ Returns(t)
                  /\ Lt64(snowflake.last_timestamp, clock)
                  /\ last_issued'.timestamp = clock
                  /\ last_issued'.sequence = 0]_vars

\* C10: while the clock has neither stepped back nor read before 1970, no
\* next_id call has ended without an identifier.
C10_CallsReturnIds ==
    clock_normal =>
        /\ result \in {"none", "Ok"}
        /\ \A t \in Threads : pc[t] # "panicked"

\* the threads inside the core next_id, between lock acquisition and release
Inside == {t \in Threads : pc[t] \in {"next_id", "til_next_millis"}}

\* C11: at most one thread at a time is inside the core next_id of the
\* generator, and it is the thread holding the MutexGuard.
C11_OneCallerInside ==
    /\ Cardinality(Inside) <= 1
    /\ holder = Inside

\* C11 witness: a thread inside next_id, waiting for the clock after the
\* sequence was exhausted, while another thread waits for the lock
C11_Witness ==
    \E t, u \in Threads :
        /\ pc[t] = "til_next_millis"
        /\ pc[u] = "lock"
        /\ holder = {t}

\* C12: the step in which a call returns, with an identifier or with the
\* clock error, leaves the lock free and not poisoned, so that lock() of any
\* caller succeeds next; and the lock is held only while a call is inside
\* next_id.
C12_LockReleased ==
    [][\A t \in Threads :
          (pc[t] \in {"next_id", "til_next_millis"} /\ pc'[t] = "idle") =>
              /\ result' \in {"Ok", "Err"}
              /\ holder' = {}
              /\ poisoned' = FALSE]_vars

\* C12 witness: a call ended with the clock error and, after it, another
\* call acquired the lock and is running next_id
C12_Witness ==
    /\ result = "Err"
    /\ \E t \in Threads : pc[t] = "next_id" /\ holder = {t}

\* C14: in every state of a generator, between calls, inside a call and
\* after a failed call, sequence is in 0..4095.
C14_SequenceInRange ==
    snowflake # <<>> => snowflake.sequence \in 0..4095

\* C14 witness: the sequence at its largest value, and the sequence back at
\* 0 inside the call that waits for the clock
C14_Witness ==
    /\ snowflake # <<>>
    /\ snowflake.sequence = 0
    /\ calls = 4097
    /\ \E t \in Threads : pc[t] = "til_next_millis"

\* C16: last_timestamp never decreases: no step of a generator, in a call
\* that returns an identifier, fails or panics, lowers it.
C16_LastTimestampNonDecreasing ==
    [][(snowflake # <<>> /\ snowflake' # <<>>) =>
          Le64(snowflake.last_timestamp, snowflake'.last_timestamp)]_vars

\* C16 witness: two calls that raised last_timestamp one after the other,
\* then a call that failed with the clock error
C16_Witness ==
    /\ Len(issued) >= 2
    /\ Lt64(Zero64, issued[1].issue.timestamp)
    /\ Lt64(issued[1].issue.timestamp, issued[2].issue.timestamp)
    /\ snowflake.last_timestamp = issued[2].issue.timestamp
    /\ result = "Err"

\* C17: a call that returns an identifier from line 44 follows the case
\* split on the value now it read. now > last_timestamp: the identifier
\* encodes now with sequence 0 and the state becomes (now, 0).
\* now = last_timestamp with sequence < 4095: the call does not wait, the
\* identifier encodes last_timestamp with sequence + 1, last_timestamp stays
\* and sequence becomes sequence + 1.
C17_CaseSplit ==
    [][\A t \in Threads :
          Enters(t) =>
              LET now == clock
                  last == snowflake.last_timestamp
                  seq == snowflake.sequence
                  Issue(n) == [timestamp |-> now,
                               sequence  |-> n,
                               id |-> MakeId(now, snowflake.datacenter_id,
                                             snowflake.worker_id, n)]
              IN  /\ (Lt64(last, now) /\ Returns(t)) =>
                         /\ last_issued' = Issue(0)
                         /\ Bits(last_issued'.id, 0, 12) = Zero64
                         /\ snowflake'.last_timestamp = now
                         /\ snowflake'.sequence = 0
                  /\ (now = last /\ seq < 4095) =>
                         /\ pc'[t] # "til_next_millis"
                         /\ Returns(t) =>
                                /\ last_issued' = Issue(seq + 1)
                                /\ Bits(last_issued'.id, 0, 12) = U64(seq + 1)
                                /\ snowflake'.last_timestamp = last
                                /\ snowflake'.sequence = seq + 1]_vars

\* C17 witness: a call in a later millisecond than last_timestamp, a call in
\* the same millisecond after it, and a call in a later millisecond again
C17_Witness ==
    /\ Len(issued) = 3
    /\ issued[1].issue.sequence = 0
    /\ issued[2].issue.timestamp = issued[1].issue.timestamp
    /\ issued[2].issue.sequence = 1
    /\ Lt64(issued[2].issue.timestamp, issued[3].issue.timestamp)
    /\ issued[3].issue.sequence = 0

\* thread t's call wraps the sequence: line 51 takes it from a value other
\* than 0 to 0
Wraps(t) ==
    /\ Enters(t)
    /\ snowflake.sequence # 0
    /\ snowflake'.sequence = 0
    /\ snowflake'.last_timestamp = snowflake.last_timestamp

\* C15 as stated: while the clock stays at its first reading, the calls
\* ended so far are the identifiers of that millisecond, and the call that
\* wraps the sequence is the one asking for its 4096th identifier.
C15_WrapsAt4096thId ==
    [][\A t \in Threads :
          (clock_stalls /\ calls <= 4097 /\ Enters(t)) =>
              (Wraps(t) <=> Completed + 1 = 4096)]_vars

\* C15, amended: the sequence wraps to 0 exactly in a call that reads the
\* clock at last_timestamp while sequence is 4095, the identifier with
\* sequence 4095 of that millisecond having been returned already; that call
\* waits in til_next_millis and comes back only with an identifier, on a
\* reading above last_timestamp.
C15_WrapsAfterSequence4095 ==
    [][\A t \in Threads :
          /\ Enters(t) =>
                 (Wraps(t) <=> (clock = snowflake.last_timestamp
                                /\ snowflake.sequence = 4095))
          /\ Wraps(t) =>
                 /\ pc'[t] = "til_next_millis"
                 /\ holder' = {t}
                 /\ has_issued
                 /\ last_issued.timestamp = clock
                 /\ last_issued.sequence = 4095
          /\ (pc[t] = "til_next_millis" /\ pc'[t] = "idle") =>
                 /\ Lt64(snowflake.last_timestamp, clock)
                 /\ Returns(t)
                 /\ last_issued'.timestamp = clock
                 /\ last_issued'.sequence = 0]_vars

\* C15 witness: the 4097th call of a millisecond that started at sequence 0
\* has waited and returned in the next millisecond
C15_Witness ==
    /\ clock_stalls
    /\ calls = 4097
    /\ \A t \in Threads : pc[t] = "idle"
    /\ result = "Ok"
    /\ snowflake.last_timestamp = WrappingAdd(EPOCH, U64(1))
    /\ snowflake.sequence = 0

\* C18: a call waiting in til_next_millis holds the lock, no other thread
\* is inside next_id, and while the clock does not read above last_timestamp
\* (stalled, moved backwards, or set before 1970) the call stays in the wait
\* with the lock held; it comes back only with an identifier, on a reading
\* above last_timestamp.
C18_WaitSpins ==
    [][\A t \in Threads :
          pc[t] = "til_next_millis" =>
              /\ holder = {t}
              /\ \A u \in Threads \ {t} : pc[u] \notin {"next_id", "til_next_millis"}
              /\ (clock = BeforeUnixEpoch \/ Le64(clock, snowflake.last_timestamp)) =>
                     /\ pc'[t] = "til_next_millis"
                     /\ holder' = {t}
              /\ pc'[t] = "idle" =>
                     /\ Lt64(snowflake.last_timestamp, clock)
                     /\ result' = "Ok"]_vars

\* 2^41, the size of the timestamp field
TimestampFieldSize == Shl(U64(1), 41)

\* C19: the identifier returned last was made from a reading now >= EPOCH
\* with now - EPOCH < 2^41, and its bits from 22 upwards are now - EPOCH.
C19_TimestampField ==
    has_issued =>
        /\ Le64(EPOCH, last_issued.timestamp)
        /\ Lt64(WrappingSub(last_issued.timestamp, EPOCH), TimestampFieldSize)
        /\ Shr(last_issued.id, 22) = WrappingSub(last_issued.timestamp, EPOCH)

\* C13: two instances built with different (worker_id, datacenter_id) and
\* the same EPOCH have returned no identifier in common, whatever the clock
\* read at each call and however their calls interleave.
C13_InstancesDistinct ==
    instances # <<>> => instances[1].ids \cap instances[2].ids = {}

\* C13 witness: the two instances have each returned an identifier made
\* from the same reading and the same sequence
C13_Witness ==
    /\ instances # <<>>
    /\ \E i \in instances[1].ids, j \in instances[2].ids :
           /\ Shr(i, 22) = Shr(j, 22)
           /\ Bits(i, 0, 12) = Bits(j, 0, 12)
           /\ Bits(i, 0, 12) = Zero64

====
